---- MODULE Spec2Model ----
(***************************************************************************)
(* pvanalytics.features.orientation: the per-day classifiers tracking()    *)
(* and fixed().  A call is modelled as one pass through the function body: *)
(* frequency inference, low-value filtering, the per-day conditional fits  *)
(* (one step per day group handed to the closure built by _fit_if), and    *)
(* the final comparison and reindex.                                       *)
(*                                                                         *)
(* Timestamps are minutes since local midnight of day 0.  Fit scores are   *)
(* r^2 in hundredths (0.94 is 94).  The fit functions of pvanalytics.util  *)
(* are external: a fit returns any score of Scores(leg) or raises.              *)
(***************************************************************************)
EXTENDS Integers, Sequences, FiniteSets

VARIABLES func, power_or_irradiance, daytime, correlation_min, min_hours,
          pc, freq, positive_mean, high_data, todo, tracking, fixed,
          calls, result, error

vars == <<func, power_or_irradiance, daytime, correlation_min, min_hours,
          pc, freq, positive_mean, high_data, todo, tracking, fixed,
          calls, result, error>>

(* ------------------------------ bounds --------------------------------- *)

\* longest input series
MaxLen == 4
\* shortest input series: pd.infer_freq needs at least 3 timestamps
MinLen == 3

(* ---------------------------- input domains ---------------------------- *)

MinutesPerDay == 1440
\* regular indexes, as <<first timestamp, spacing>> in minutes: hourly from
\* 07:00 (inside the window from 09:00 on) and 12-hourly from 12:00 (one
\* sample a day inside the window, one at midnight)
Grids == {<<420, 60>>, <<720, 720>>}
\* irregular indexes: a grid with its second timestamp missing
Gaps == {<<420, 60>>}
\* measurement values (zero, a small and a large positive reading)
Values == {0, 1, 20}
\* scores the external fits may return, in hundredths: the quartic fit a
\* score at or above fixed_max, the quadratic fit one below or at fixed_max
Scores(leg) == IF leg = "quartic" THEN {96, 99} ELSE {95, 96}
\* a fit that raises instead of returning a score
FitError == -1000
CorrelationMins == {94, 97}
MinHoursSet == {5, 120}

(* ----------------------- defaults of the signatures -------------------- *)

\* fixed_max=0.96
fixed_max == 96
\* default=0.0 of _fit_if
default == 0
\* power_min=0.1 of tracking, as numerator over PowerMinDen
power_min_tracking == 1
\* power_min=0.4 of fixed, as numerator over PowerMinDen
power_min_fixed == 4
PowerMinDen == 10
\* late_morning='08:45'
late_morning == 525
\* early_afternoon='17:15'
early_afternoon == 1035

(* ------------------------------ helpers -------------------------------- *)

Range(s) == {s[i] : i \in 1..Len(s)}

RECURSIVE Sum(_)
\* Series.sum() over the values of a series
Sum(s) == IF s = <<>> THEN 0 ELSE s[1].v + Sum(Tail(s))

\* Series.max() over a non-empty series
Max(s) == CHOOSE m \in {x.v : x \in Range(s)} : \A x \in Range(s) : x.v <= m

\* calendar date of a timestamp (index.date)
Date(t) == t \div MinutesPerDay

\* the timestamp of midnight of a date (the group key)
Midnight(d) == d * MinutesPerDay

\* minute of the day of a timestamp
Clock(t) == t % MinutesPerDay

\* the regular grid start, start+step, ... of n timestamps
Grid(start, step, n) == [i \in 1..n |-> start + (i - 1) * step]

\* the grid with its second timestamp missing: an irregular index
Gapped(start, step, n) ==
    [i \in 1..n |-> IF i = 1 THEN start ELSE start + i * step]

RECURSIVE Digits(_)
\* decimal digits of a positive integer
Digits(n) == IF n < 10 THEN <<n>> ELSE Append(Digits(n \div 10), n % 10)

RECURSIVE ParseInt(_)
\* the integer a digit string denotes
ParseInt(ds) ==
    IF ds = <<>> THEN 0 ELSE 10 * ParseInt(SubSeq(ds, 1, Len(ds) - 1)) + ds[Len(ds)]

\* pd.infer_freq yields None
None == [mult |-> <<>>, unit |-> "None"]

\* the frequency string of a spacing of d minutes: 'H', '12H', '5T', 'D'
FreqStr(d) ==
    LET unit == IF d % MinutesPerDay = 0 THEN "D"
                ELSE IF d % 60 = 0 THEN "H" ELSE "T"
        n == IF unit = "D" THEN d \div MinutesPerDay
             ELSE IF unit = "H" THEN d \div 60 ELSE d
    IN  [mult |-> IF n = 1 THEN <<>> ELSE Digits(n), unit |-> unit]

\* pd.infer_freq(index): the common spacing, None if there is none
infer_freq(index) ==
    LET diffs == {index[i + 1] - index[i] : i \in 1..(Len(index) - 1)}
    IN  IF Cardinality(diffs) = 1
        THEN FreqStr(CHOOSE d \in diffs : TRUE)
        ELSE None

\* seconds in one unit of a frequency string
UnitSeconds(u) == IF u = "D" THEN 86400 ELSE IF u = "H" THEN 3600 ELSE 60

\* _freqstr_to_hours(freq): Timedelta.seconds (the part below one day) / 60
_freqstr_to_hours(f) ==
    LET mult == IF f.mult = <<>> THEN <<1>> ELSE f.mult
        total == ParseInt(mult) * UnitSeconds(f.unit)
    IN  (total % 86400) \div 60

\* _hours(data, freq)
_hours(data, f) == Len(data) * _freqstr_to_hours(f)

\* series[daytime]
Masked(s, mask) ==
    LET keep == SelectSeq([i \in 1..Len(s) |-> i], LAMBDA i : mask[i])
    IN  [k \in 1..Len(keep) |-> s[keep[k]]]

\* _filter_low with the mean recomputed over the positive samples only
_filter_low_PositiveMean(data, num) ==
    LET positive_data == SelectSeq(data, LAMBDA x : x.v > 0)
    IN  SelectSeq(positive_data,
                  LAMBDA x : x.v * PowerMinDen * Len(positive_data)
                             > num * Sum(positive_data))

\* _filter_low(data, multiplier), multiplier = num / PowerMinDen
_filter_low(data, num) ==
    LET positive_data == SelectSeq(data, LAMBDA x : x.v > 0)
        total == Sum(data)
    IN  SelectSeq(positive_data,
                  LAMBDA x : x.v * PowerMinDen * Len(data) > num * total)

\* _group_by_day(data): the day groups, keyed by date
_group_by_day(data) ==
    [d \in {Date(x.t) : x \in Range(data)} |->
        SelectSeq(data, LAMBDA x : Date(x.t) = d)]

\* high_data.between_time(late_morning, early_afternoon), both ends included
between_time(data) ==
    SelectSeq(data, LAMBDA x : Clock(x.t) >= late_morning
                               /\ Clock(x.t) <= early_afternoon)

\* power_or_irradiance[power_or_irradiance > 0].mean(), as sum and count
PositiveMean(s) ==
    LET pos == SelectSeq(s, LAMBDA x : x.v > 0)
    IN  [sum |-> Sum(pos), n |-> Len(pos)]

\* day.max() >= positive_mean (False when the mean is NaN)
PeakOk(day, pm) == pm.n > 0 /\ Max(day) * pm.n >= pm.sum

\* the gate with a strict comparison against min_hours
pred_Strict(day, f, mh, pm, fn) ==
    /\ _hours(day, f) > mh
    /\ (fn = "tracking" => PeakOk(day, pm))

\* the gating lambda handed to _fit_if
pred(day, f, mh, pm, fn) ==
    /\ _hours(day, f) >= mh
    /\ (fn = "tracking" => PeakOk(day, pm))

\* the series the current apply() groups
Grouped == IF pc = "quadratic" /\ func = "tracking"
           THEN _group_by_day(between_time(high_data))
           ELSE _group_by_day(high_data)

\* the next group apply() hands to do_fit
NextDay == CHOOSE d \in todo : \A e \in todo : d <= e

\* extend a per-day series by one entry
Put(s, d, x) == [e \in DOMAIN s \cup {d} |-> IF e = d THEN x ELSE s[e]]

\* a reindex that keeps only the timestamps of days that have a label
Reindex_LabelledOnly(labels, series) ==
    LET kept == SelectSeq(series, LAMBDA x : Date(x.t) \in DOMAIN labels)
    IN  [i \in 1..Len(kept) |-> [t |-> kept[i].t, v |-> labels[Date(kept[i].t)]]]

\* Series.reindex(index, method='pad', fill_value=False) of a per-day series
Reindex(labels, series) ==
    [i \in 1..Len(series) |->
        LET t == series[i].t
            before == {d \in DOMAIN labels : Midnight(d) <= t}
        IN  [t |-> t,
             v |-> IF before = {} THEN FALSE
                   ELSE labels[CHOOSE d \in before : \A e \in before : e <= d]]]

\* the comparison of tracking() without the fixed_max clause
TrackingLabels_NoFixedMax(tr, fx, cmin) ==
    [d \in DOMAIN tr |-> tr[d] > cmin /\ tr[d] > fx[d]]

\* the per-day comparison of tracking()
TrackingLabels(tr, fx, cmin) ==
    [d \in DOMAIN tr |-> tr[d] > cmin /\ tr[d] > fx[d] /\ fx[d] < fixed_max]

\* the comparison of fixed() with its operands swapped
FixedLabels_Swapped(fx, cmin) == [d \in DOMAIN fx |-> cmin > fx[d]]

\* the per-day comparison of fixed()
FixedLabels(fx, cmin) == [d \in DOMAIN fx |-> fx[d] > cmin]

\* the returned series for a given correlation_min
Classified(cmin) ==
    IF func = "tracking"
    THEN Reindex(TrackingLabels(tracking, fixed, cmin), power_or_irradiance)
    ELSE Reindex(FixedLabels(fixed, cmin), power_or_irradiance)

Empty == [d \in {} |-> 0]

(* ------------------------------- state --------------------------------- *)

Init ==
    /\ func \in {"tracking", "fixed"}
    /\ \E n \in MinLen..MaxLen :
         \E index \in {Grid(g[1], g[2], n) : g \in Grids}
                       \cup {Gapped(g[1], g[2], n) : g \in Gaps},
            vals \in [1..n -> Values] :
            power_or_irradiance = [i \in 1..n |-> [t |-> index[i], v |-> vals[i]]]
    /\ daytime \in [1..Len(power_or_irradiance) -> BOOLEAN]
    /\ correlation_min \in CorrelationMins
    /\ min_hours \in MinHoursSet
    /\ pc = "infer_freq"
    /\ freq = None
    /\ positive_mean = [sum |-> 0, n |-> 0]
    /\ high_data = <<>>
    /\ todo = {}
    /\ tracking = Empty
    /\ fixed = Empty
    /\ calls = {}
    /\ result = <<>>
    /\ error = "none"

\* freq = pd.infer_freq(power_or_irradiance.index)
InferFreq ==
    /\ pc = "infer_freq"
    /\ freq' = infer_freq([i \in 1..Len(power_or_irradiance) |-> power_or_irradiance[i].t])
    /\ pc' = "filter"
    /\ UNCHANGED <<func, power_or_irradiance, daytime, correlation_min, min_hours,
                   positive_mean, high_data, todo, tracking, fixed, calls,
                   result, error>>

\* positive_mean, high_data and the day groups of the first apply()
FilterLow ==
    /\ pc = "filter"
    /\ positive_mean' = IF func = "tracking" THEN PositiveMean(power_or_irradiance)
                        ELSE positive_mean
    /\ high_data' = _filter_low(Masked(power_or_irradiance, daytime),
                                IF func = "tracking" THEN power_min_tracking
                                ELSE power_min_fixed)
    /\ todo' = DOMAIN _group_by_day(high_data')
    /\ pc' = IF func = "tracking" THEN "quartic" ELSE "quadratic"
    /\ UNCHANGED <<func, power_or_irradiance, daytime, correlation_min, min_hours,
                   freq, tracking, fixed, calls, result, error>>

\* the score do_fit returned for the next day goes into the per-day series
Store(d, x) ==
    /\ IF pc = "quartic"
       THEN tracking' = Put(tracking, d, x) /\ fixed' = fixed
       ELSE fixed' = Put(fixed, d, x) /\ tracking' = tracking
    /\ todo' = todo \ {d}

\* do_fit on a day when freq is None: _freqstr_to_hours raises
FreqError ==
    /\ pc \in {"quartic", "quadratic"}
    /\ todo # {}
    /\ freq = None
    /\ pc' = "failed"
    /\ error' = "AttributeError"
    /\ UNCHANGED <<func, power_or_irradiance, daytime, correlation_min, min_hours,
                   freq, positive_mean, high_data, todo, tracking, fixed,
                   calls, result>>

\* do_fit treating a missing frequency as zero hours of data
FitGatedOut_NoneIsZero ==
    /\ pc \in {"quartic", "quadratic"}
    /\ todo # {}
    /\ \/ freq = None
       \/ ~pred(Grouped[NextDay], freq, min_hours, positive_mean, func)
    /\ Store(NextDay, default)
    /\ UNCHANGED <<func, power_or_irradiance, daytime, correlation_min, min_hours,
                   pc, freq, positive_mean, high_data, calls, result, error>>

\* do_fit on a day that fails pred: the default, no fit
FitGatedOut ==
    /\ pc \in {"quartic", "quadratic"}
    /\ todo # {}
    /\ freq # None
    /\ ~pred(Grouped[NextDay], freq, min_hours, positive_mean, func)
    /\ Store(NextDay, default)
    /\ UNCHANGED <<func, power_or_irradiance, daytime, correlation_min, min_hours,
                   pc, freq, positive_mean, high_data, calls, result, error>>

\* do_fit on a day that passes pred: the fit function returns a score
FitReturns ==
    /\ pc \in {"quartic", "quadratic"}
    /\ todo # {}
    /\ freq # None
    /\ pred(Grouped[NextDay], freq, min_hours, positive_mean, func)
    /\ \E r \in Scores(pc) :
         /\ Store(NextDay, r)
         /\ calls' = calls \cup {[fn |-> pc, day |-> NextDay, ret |-> r]}
    /\ UNCHANGED <<func, power_or_irradiance, daytime, correlation_min, min_hours,
                   pc, freq, positive_mean, high_data, result, error>>

\* do_fit on a day that passes pred: the fit function raises
FitRaises ==
    /\ pc \in {"quartic", "quadratic"}
    /\ todo # {}
    /\ freq # None
    /\ pred(Grouped[NextDay], freq, min_hours, positive_mean, func)
    /\ calls' = calls \cup {[fn |-> pc, day |-> NextDay, ret |-> FitError]}
    /\ pc' = "failed"
    /\ error' = "FitError"
    /\ UNCHANGED <<func, power_or_irradiance, daytime, correlation_min, min_hours,
                   freq, positive_mean, high_data, todo, tracking, fixed, result>>

\* tracking(): the quartic apply() is over, the windowed groups come next
ApplyWindow ==
    /\ pc = "quartic"
    /\ todo = {}
    /\ todo' = DOMAIN _group_by_day(between_time(high_data))
    /\ pc' = "quadratic"
    /\ UNCHANGED <<func, power_or_irradiance, daytime, correlation_min, min_hours,
                   freq, positive_mean, high_data, tracking, fixed, calls,
                   result, error>>

\* the comparisons and the reindex onto the input index
Classify ==
    /\ pc = "quadratic"
    /\ todo = {}
    /\ func = "tracking" => DOMAIN tracking = DOMAIN fixed
    /\ result' = Classified(correlation_min)
    /\ pc' = "done"
    /\ UNCHANGED <<func, power_or_irradiance, daytime, correlation_min, min_hours,
                   freq, positive_mean, high_data, todo, tracking, fixed,
                   calls, error>>

\* tracking > fixed on series that are not identically labelled raises
CompareError ==
    /\ pc = "quadratic"
    /\ todo = {}
    /\ func = "tracking"
    /\ DOMAIN tracking # DOMAIN fixed
    /\ pc' = "failed"
    /\ error' = "ValueError"
    /\ UNCHANGED <<func, power_or_irradiance, daytime, correlation_min, min_hours,
                   freq, positive_mean, high_data, todo, tracking, fixed,
                   calls, result>>

Next ==
    \/ InferFreq
    \/ FilterLow
    \/ FreqError
    \/ FitGatedOut
    \/ FitReturns
    \/ FitRaises
    \/ ApplyWindow
    \/ Classify
    \/ CompareError

Spec == Init /\ [][Next]_vars

(* ------------------------- derived quantities -------------------------- *)

\* the per-day groups of the retained samples
Retained == _group_by_day(high_data)

\* high_data has been computed
Filtered == pc \notin {"infer_freq", "filter"}

\* the true spacing of a regular index, in minutes
Spacing == power_or_irradiance[2].t - power_or_irradiance[1].t

\* the positions of the input whose timestamp falls on date d
Stamps(d) == {i \in 1..Len(power_or_irradiance) : Date(power_or_irradiance[i].t) = d}

(* ------------------------------- claims -------------------------------- *)

\* C1: a day with no entry in the per-day result (every sample removed by the
\* mask or the low-value filter) is False at every one of its timestamps,
\* whatever the preceding day's label.
C1_DefaultFalseClosure ==
    pc = "done" =>
        \A i \in 1..Len(result) :
            Date(result[i].t) \notin DOMAIN Retained => result[i].v = FALSE

\* C2: with min_hours=5 and a positive correlation_min a day whose retained
\* samples cover only 2 hours is labelled False, whatever the fits return.
C2_SparseDayFalse ==
    (pc = "done" /\ min_hours = 5 /\ correlation_min > 0) =>
        \A d \in DOMAIN Retained :
            Len(Retained[d]) * Spacing = 120 =>
                \A i \in Stamps(d) : result[i].v = FALSE

Degenerate(d) ==
    LET w == SelectSeq(between_time(high_data), LAMBDA x : Date(x.t) = d)
    IN  \/ w = <<>>
        \/ ~pred(w, freq, min_hours, positive_mean, func)

\* C4: a day with retained samples but too few (including zero) of them in
\* the window is never surfaced as an error by tracking; its fixed score is
\* the default.
C4_DegenerateNeverSurfaced ==
    (func = "tracking" /\ Filtered /\ freq # None) =>
        \A d \in DOMAIN Retained :
            Degenerate(d) =>
                /\ error \notin {"ValueError", "AttributeError"}
                /\ pc = "done" => (d \in DOMAIN fixed /\ fixed[d] = default)

\* C5: whenever frequency inference yields None the call fails and returns
\* no series, however many days retain samples.
C5_NoFreqAlwaysFails ==
    (freq = None /\ pc # "infer_freq") => pc # "done"

\* C5 (amended): with freq None the call fails exactly when some day retains
\* a sample, before any score is stored; with nothing retained it returns
\* the all-False series.
C5_NoFreqFailsIffRetained ==
    (freq = None /\ Filtered) =>
        /\ high_data # <<>> =>
              /\ pc \in {"quartic", "quadratic", "failed"}
              /\ pc = "failed" => error = "AttributeError"
              /\ pc # "failed" => todo # {}
              /\ tracking = Empty /\ fixed = Empty /\ calls = {}
        /\ high_data = <<>> =>
              /\ pc # "failed"
              /\ pc = "done" => \A i \in 1..Len(result) : ~result[i].v

C5_Witness ==
    /\ freq = None /\ pc = "failed" /\ error = "AttributeError"
    /\ high_data # <<>>

\* C6: the returned series has exactly the input's index, in order, with a
\* boolean at every timestamp.
C6_IndexAlignment ==
    pc = "done" =>
        /\ Len(result) = Len(power_or_irradiance)
        /\ \A i \in 1..Len(power_or_irradiance) :
              /\ result[i].t = power_or_irradiance[i].t
              /\ result[i].v \in BOOLEAN

\* a returned series with a masked-out and a filtered-out timestamp
C6_Witness ==
    /\ pc = "done"
    /\ high_data # <<>>
    /\ \E i \in 1..Len(power_or_irradiance) : ~daytime[i]
    /\ \E i \in 1..Len(power_or_irradiance) :
          daytime[i] /\ power_or_irradiance[i].v <= 0

\* C7: raising correlation_min never turns a False timestamp True.
C7_MonotonicThreshold ==
    pc = "done" =>
        \A c2 \in CorrelationMins :
            c2 >= correlation_min =>
                \A i \in 1..Len(result) : Classified(c2)[i].v => result[i].v

\* a timestamp that is True under the lower threshold only
C7_Witness ==
    /\ pc = "done"
    /\ \E c2 \in CorrelationMins :
          /\ c2 > correlation_min
          /\ \E i \in 1..Len(result) : result[i].v /\ ~Classified(c2)[i].v

\* C8: _hours(day, freq) is the number of samples times the sampling interval
\* in hours (both sides in minutes here).
C8_HoursOfData ==
    (pc \in {"quartic", "quadratic"} /\ todo # {} /\ freq # None) =>
        _hours(Grouped[NextDay], freq) * 60 = Len(Grouped[NextDay]) * Spacing

\* the gate of one leg on one day, spelled out
Gate(day, leg) ==
    /\ Len(day) * _freqstr_to_hours(freq) >= min_hours
    /\ func = "tracking" =>
          /\ positive_mean.n > 0
          /\ Max(day) * positive_mean.n >= positive_mean.sum

\* the day group a leg saw on date d
DayOf(leg, d) ==
    SelectSeq(IF leg = "quadratic" /\ func = "tracking"
              THEN between_time(high_data) ELSE high_data,
              LAMBDA x : Date(x.t) = d)

\* the score series a leg fills
SeriesOf(leg) == IF leg = "quartic" THEN tracking ELSE fixed

C10_FilterLow ==
    Filtered =>
        LET data == Masked(power_or_irradiance, daytime)
            num == IF func = "tracking" THEN power_min_tracking ELSE power_min_fixed
            total == Sum(data)
            keep(x) == /\ x.v > 0
                       /\ x.v * PowerMinDen * Len(data) > num * total
        IN  /\ high_data = SelectSeq(data, keep)
            /\ (\A x \in Range(data) : x.v <= 0) => high_data = <<>>

\* a zero sample counted in the mean: a reading of 1 is kept although it is
\* not above multiplier x the mean of the positive samples alone
C10_Witness ==
    /\ Filtered
    /\ LET data == Masked(power_or_irradiance, daytime)
           num == IF func = "tracking" THEN power_min_tracking ELSE power_min_fixed
           pos == SelectSeq(data, LAMBDA x : x.v > 0)
       IN  /\ \E x \in Range(data) : x.v = 0
           /\ \E x \in Range(high_data) :
                 x.v * PowerMinDen * Len(pos) <= num * Sum(pos)
====
